---- MODULE Spec2Model ----
(***************************************************************************)
(* Model of scraper.py: a sequential CLI run (main) that calls one        *)
(* scraping pipeline per requested source (scrape_g2, scrape_capterra,    *)
(* scrape_trustradius), filters review cards by date and writes the       *)
(* merged list to the output file.                                        *)
(*                                                                         *)
(* Strings that the code inspects (the --company input, URLs) are         *)
(* sequences of one-character strings.  A date text is a record naming    *)
(* the textual form it is written in (the strptime format it matches, or  *)
(* an ISO-8601 form only datetime.fromisoformat accepts, or none), the    *)
(* calendar day, the time of day and the UTC offset it spells out.        *)
(* The remote sites are the environment: every request is answered        *)
(* nondeterministically when it is issued.                                *)
(***************************************************************************)
EXTENDS Integers, Sequences, FiniteSets, TLC

VARIABLES
    args,         \* parsed command line: [company, start, end, source]
    start,        \* main: start (datetime or None)
    end,          \* main: end (datetime or None)
    all_reviews,  \* main: all_reviews
    si,           \* main: 1-based position of the for loop in sources
    pc,           \* main: "sources" while in the for loop, "done" after the write
    ppc,          \* current pipeline: "call" before it is entered, "loop" in its while loop
    product_url,  \* current pipeline: product_url
    page,         \* current pipeline: page
    reviews,      \* current pipeline: reviews
    requests,     \* every HTTP GET issued so far, in order
    fetched,      \* per source: the page responses received (status, review cards)
    searched,     \* per source: outcome of the search request ("none" if not issued)
    status,       \* per source: "pending", "running", "returned", "raised"
    cause,        \* per source: the exception that ended it ("none" if it did not raise)
    result,       \* per source: the list the pipeline returned
    stderr,       \* the per-source messages main printed to the diagnostic stream
    output,       \* the output file: [written, array]
    writes        \* number of times the output file was written

vars == <<args, start, end, all_reviews, si, pc, ppc, product_url, page, reviews,
          requests, fetched, searched, status, cause, result, stderr, output, writes>>

-----------------------------------------------------------------------------
(* Bounds *)

\* Total number of review cards the sites serve during one run.  Every
\* non-empty page holds at least one card, so this also bounds the pages.
MaxTotalCards == 2

-----------------------------------------------------------------------------
(* Python string operations on character sequences *)

startswith(s, prefix) ==
    Len(s) >= Len(prefix) /\ SubSeq(s, 1, Len(prefix)) = prefix

\* sub in s
contains(s, sub) ==
    \E i \in 1..(Len(s) - Len(sub) + 1) : SubSeq(s, i, i + Len(sub) - 1) = sub

RECURSIVE rstrip(_, _)
rstrip(s, c) ==
    IF s # <<>> /\ s[Len(s)] = c THEN rstrip(SubSeq(s, 1, Len(s) - 1), c) ELSE s

\* s.replace(a, b) for single characters a, b
replace(s, a, b) == [i \in 1..Len(s) |-> IF s[i] = a THEN b ELSE s[i]]

lowerChar(c) ==
    CASE c = "A" -> "a" [] c = "C" -> "c" [] OTHER -> c

lower(s) == [i \in 1..Len(s) |-> lowerChar(s[i])]

Digit(d) ==
    CASE d = 0 -> "0" [] d = 1 -> "1" [] d = 2 -> "2" [] d = 3 -> "3" [] d = 4 -> "4"
      [] d = 5 -> "5" [] d = 6 -> "6" [] d = 7 -> "7" [] d = 8 -> "8" [] d = 9 -> "9"

\* str(n) for n >= 0, as in the f-string {page}
RECURSIVE str(_)
str(n) == IF n < 10 THEN <<Digit(n)>> ELSE str(n \div 10) \o <<Digit(n % 10)>>

count(s, c) == Cardinality({i \in 1..Len(s) : s[i] = c})

-----------------------------------------------------------------------------
(* Dates *)

None == [kind |-> "None"]

datetime(day, tod, tz) == [kind |-> "datetime", day |-> day, tod |-> tod, tz |-> tz]

\* The formats parse_date_try hands to strptime, in order.
StrptimeFormats == <<"%Y-%m-%d", "%d-%m-%Y", "%d %B %Y", "%B %d, %Y", "%b %d, %Y">>

\* datetime.strptime(dt_str.strip(), fmt): succeeds iff the text is written in
\* that format; none of the formats carries a time, so the result is naive midnight.
strptime(dt_str, fmt) ==
    IF dt_str.fmt = fmt THEN datetime(dt_str.day, 0, "naive") ELSE None

\* datetime.fromisoformat(dt_str): accepts ISO-8601 texts; a text with a UTC
\* offset gives an offset-aware datetime, the others a naive one.
fromisoformat(dt_str) ==
    IF dt_str.fmt \in {"%Y-%m-%d", "iso-datetime", "iso-datetime-offset"}
    THEN datetime(dt_str.day, dt_str.tod, dt_str.tz)
    ELSE None

RECURSIVE parse_date_from(_, _)
parse_date_from(dt_str, k) ==
    IF k > Len(StrptimeFormats) THEN fromisoformat(dt_str)
    ELSE IF strptime(dt_str, StrptimeFormats[k]) # None
         THEN strptime(dt_str, StrptimeFormats[k])
         ELSE parse_date_from(dt_str, k + 1)

parse_date_try(dt_str) == parse_date_from(dt_str, 1)

\* date_obj.isoformat(), as a date text
isoformat(d) ==
    [fmt |-> IF d.tz = "naive" THEN "iso-datetime" ELSE "iso-datetime-offset",
     day |-> d.day, tod |-> d.tod, tz |-> d.tz]

\* Python refuses to order an offset-naive and an offset-aware datetime.
comparable(a, b) == (a.tz = "naive") = (b.tz = "naive")

\* a < b for two comparable datetimes (the only offset modelled is +00:00)
lessThan(a, b) == a.day < b.day \/ (a.day = b.day /\ a.tod < b.tod)

\* within_range: "True", "False", or "TypeError" when a comparison raises
within_range(date_obj, s, e) ==
    IF s # None /\ ~comparable(date_obj, s) THEN "TypeError"
    ELSE IF s # None /\ lessThan(date_obj, s) THEN "False"
    ELSE IF e # None /\ ~comparable(date_obj, e) THEN "TypeError"
    ELSE IF e # None /\ lessThan(e, date_obj) THEN "False"
    ELSE "True"

-----------------------------------------------------------------------------
(* Inputs *)

Sources == {"g2", "capterra", "trustradius"}

\* --company values: a product name, a product name that begins with the
\* letters "http", a listing URL with a trailing slash, a listing URL that
\* already carries a query string.
CompanyName ==
    <<"A", "c", "m", "e", " ", "C", "o", "r", "p">>

CompanyHttpName ==
    <<"h", "t", "t", "p", "i", "e">>

CompanyUrl ==
    <<"h", "t", "t", "p", "s", ":", "/", "/", "e", "x", "a", "m", "p", "l", "e", ".",
      "c", "o", "m", "/", "p", "/", "x", "/", "r", "e", "v", "i", "e", "w", "s", "/">>

CompanyUrlQuery ==
    <<"h", "t", "t", "p", "s", ":", "/", "/", "e", "x", "a", "m", "p", "l", "e", ".",
      "c", "o", "m", "/", "p", "/", "x", "/", "r", "e", "v", "i", "e", "w", "s", "?",
      "s", "o", "r", "t", "=", "n", "e", "w">>

Companies == {CompanyName, CompanyHttpName, CompanyUrl, CompanyUrlQuery}

\* Date texts a review card can carry.  Day numbers count calendar days;
\* tod is the hour of the day.
EmptyText == [fmt |-> "empty", day |-> 0, tod |-> 0, tz |-> "naive"]

GarbageText == [fmt |-> "unparseable", day |-> 0, tod |-> 0, tz |-> "naive"]

DateTexts ==
    { EmptyText, GarbageText,
      [fmt |-> "%Y-%m-%d", day |-> 1, tod |-> 0, tz |-> "naive"],
      [fmt |-> "iso-datetime", day |-> 2, tod |-> 10, tz |-> "naive"],
      [fmt |-> "iso-datetime-offset", day |-> 2, tod |-> 10, tz |-> "+00:00"] }

\* --start / --end values: absent, or a YYYY-MM-DD date
BoundArgs == { None, [fmt |-> "%Y-%m-%d", day |-> 2, tod |-> 0, tz |-> "naive"] }

\* The command lines examined: every date boundary with a listing URL and all
\* three sources; every company input with each single source.
RunArgs ==
    [company : {CompanyUrl}, start : BoundArgs, end : BoundArgs, source : {"all"}]
      \cup [company : Companies, start : {None}, end : {None}, source : Sources]

\* href of the first matching link of a search result page
SearchHref ==
    <<"/", "p", "r", "o", "d", "u", "c", "t", "s", "/", "a", "c", "m", "e", "/", "r",
      "e", "v", "i", "e", "w", "s">>

-----------------------------------------------------------------------------
(* The three pipelines' site constants *)

G2Search ==
    <<"h", "t", "t", "p", "s", ":", "/", "/", "w", "w", "w", ".", "g", "2", ".", "c",
      "o", "m", "/", "s", "e", "a", "r", "c", "h", "?", "q", "=">>

G2Base ==
    <<"h", "t", "t", "p", "s", ":", "/", "/", "w", "w", "w", ".", "g", "2", ".", "c",
      "o", "m">>

G2Products ==
    <<"h", "t", "t", "p", "s", ":", "/", "/", "w", "w", "w", ".", "g", "2", ".", "c",
      "o", "m", "/", "p", "r", "o", "d", "u", "c", "t", "s", "/">>

CapterraSearch ==
    <<"h", "t", "t", "p", "s", ":", "/", "/", "w", "w", "w", ".", "c", "a", "p", "t",
      "e", "r", "r", "a", ".", "c", "o", "m", "/", "s", "e", "a", "r", "c", "h", "?",
      "q", "=">>

CapterraBase ==
    <<"h", "t", "t", "p", "s", ":", "/", "/", "w", "w", "w", ".", "c", "a", "p", "t",
      "e", "r", "r", "a", ".", "c", "o", "m">>

CapterraProducts ==
    <<"h", "t", "t", "p", "s", ":", "/", "/", "w", "w", "w", ".", "c", "a", "p", "t",
      "e", "r", "r", "a", ".", "c", "o", "m", "/", "p", "/">>

TrustRadiusSearch ==
    <<"h", "t", "t", "p", "s", ":", "/", "/", "w", "w", "w", ".", "t", "r", "u", "s",
      "t", "r", "a", "d", "i", "u", "s", ".", "c", "o", "m", "/", "s", "e", "a", "r",
      "c", "h", "?", "q", "u", "e", "r", "y", "=">>

TrustRadiusBase ==
    <<"h", "t", "t", "p", "s", ":", "/", "/", "w", "w", "w", ".", "t", "r", "u", "s",
      "t", "r", "a", "d", "i", "u", "s", ".", "c", "o", "m">>

TrustRadiusProducts ==
    <<"h", "t", "t", "p", "s", ":", "/", "/", "w", "w", "w", ".", "t", "r", "u", "s",
      "t", "r", "a", "d", "i", "u", "s", ".", "c", "o", "m", "/", "p", "r", "o", "d",
      "u", "c", "t", "s", "/">>

SlashReviews ==
    <<"/", "r", "e", "v", "i", "e", "w", "s">>

SlashHashReviews ==
    <<"/", "#", "r", "e", "v", "i", "e", "w", "s">>

QPage ==
    <<"?", "p", "a", "g", "e", "=">>

AmpPage ==
    <<"&", "p", "a", "g", "e", "=">>

ReviewsQPage ==
    <<"/", "r", "e", "v", "i", "e", "w", "s", "?", "p", "a", "g", "e", "=">>

Http ==
    <<"h", "t", "t", "p">>

-----------------------------------------------------------------------------
(* Per-site parts of the pipelines *)

SearchPrefix(s) ==
    CASE s = "g2" -> G2Search [] s = "capterra" -> CapterraSearch
      [] s = "trustradius" -> TrustRadiusSearch

SiteBase(s) ==
    CASE s = "g2" -> G2Base [] s = "capterra" -> CapterraBase
      [] s = "trustradius" -> TrustRadiusBase

\* q = company.replace(" ", "+"); search_url = f"<site search>{q}"
search_url(s, company) == SearchPrefix(s) \o replace(company, " ", "+")

\* product_url = "<site>" + link.get("href")
found_url(s, href) == SiteBase(s) \o href

\* slug = company.lower().replace(" ", "-"); product_url = f"<site template with {slug}>"
fallback_url(s, company) ==
    LET slug == replace(lower(company), " ", "-")
    IN CASE s = "g2" -> G2Products \o slug \o SlashReviews
         [] s = "capterra" -> CapterraProducts \o slug \o SlashHashReviews
         [] s = "trustradius" -> TrustRadiusProducts \o slug \o SlashReviews

\* company.startswith("http")
looks_like_url(company) == startswith(company, Http)

\* page_url = product_url + (...)
page_url(s, url, n) ==
    IF s = "trustradius"
    THEN url \o (IF ~contains(url, SlashReviews) THEN ReviewsQPage \o str(n)
                 ELSE QPage \o str(n))
    ELSE url \o (IF ~contains(url, <<"?">>) THEN QPage \o str(n)
                 ELSE AmpPage \o str(n))

\* source_tag with the capterra pipeline left tagging its records "g2"
source_tag_copied(s) ==
    CASE s = "g2" -> "g2" [] s = "capterra" -> "g2"
      [] s = "trustradius" -> "trustradius"

\* the "source" value each pipeline writes into its records
source_tag(s) ==
    CASE s = "g2" -> "g2" [] s = "capterra" -> "capterra"
      [] s = "trustradius" -> "trustradius"

-----------------------------------------------------------------------------
(* Card processing: the body of the for loop over items *)

\* date_obj = parse_date_try(date_text) if date_text else None
card_date(date_text) ==
    IF date_text # EmptyText THEN parse_date_try(date_text) ELSE None

\* date_filter with unparseable dates excluded whenever a bound is set
date_filter_fail_closed(date_obj, s, e) ==
    IF date_obj = None
    THEN (IF s = None /\ e = None THEN "keep" ELSE "continue")
    ELSE CASE within_range(date_obj, s, e) = "TypeError" -> "TypeError"
           [] within_range(date_obj, s, e) = "False" -> "continue"
           [] within_range(date_obj, s, e) = "True" -> "keep"

\* if date_obj and not within_range(date_obj, start, end): continue
\* "continue" skips the card, "keep" goes on to build the record, "TypeError"
\* is the exception within_range lets escape.
date_filter(date_obj, s, e) ==
    IF date_obj = None THEN "keep"
    ELSE CASE within_range(date_obj, s, e) = "TypeError" -> "TypeError"
           [] within_range(date_obj, s, e) = "False" -> "continue"
           [] within_range(date_obj, s, e) = "True" -> "keep"

\* The record built from a card.  The card's title stands for its text
\* fields (title, review, rating, reviewer), which are copied unchanged.
make_review(s, it, date_obj) ==
    [title  |-> it.title,
     date   |-> IF date_obj # None THEN isoformat(date_obj) ELSE it.date_text,
     source |-> source_tag(s)]

\* for it in items: ...   from card i on, with the reviews and added so far
RECURSIVE process_items(_, _, _, _, _, _, _)
process_items(s, items, i, revs, added, st, en) ==
    IF i > Len(items)
    THEN [reviews |-> revs, added |-> added, raised |-> FALSE]
    ELSE LET date_obj == card_date(items[i].date_text)
             f == date_filter(date_obj, st, en)
         IN IF f = "TypeError"
            THEN [reviews |-> revs, added |-> added, raised |-> TRUE]
            ELSE IF f = "continue"
            THEN process_items(s, items, i + 1, revs, added, st, en)
            ELSE process_items(s, items, i + 1,
                               Append(revs, make_review(s, items[i], date_obj)),
                               added + 1, st, en)

-----------------------------------------------------------------------------
(* main *)

\* sources = ["g2","capterra","trustradius"] if args.source=="all" else [args.source]
sources_of(a) ==
    IF a.source = "all" THEN <<"g2", "capterra", "trustradius">> ELSE <<a.source>>

sources == sources_of(args)

\* the output file: absent before the write, then the JSON array written
NotWritten == [written |-> FALSE, array |-> <<>>]

\* the source whose pipeline the for loop is at
cur == sources[si]

InLoop == pc = "sources" /\ si <= Len(sources)

\* sources_exhausted with the write reached as soon as one source was attempted
sources_exhausted_early(i, n) == i > 1

\* the for loop is exhausted: every requested source has been attempted
sources_exhausted(i, n) == i > n

\* after_except with the records collected before the failure kept
after_except_keeps_partial(all, partial) == all \o partial

\* all_reviews after the except clause handled a pipeline's exception; the
\* pipeline's own list is lost with its frame
after_except(all, partial) == all

\* all_reviews.extend(res)
extend(all, res) == all \o res

Init ==
    /\ args \in RunArgs
    /\ start = (IF args.start # None THEN parse_date_try(args.start) ELSE None)
    /\ end = (IF args.end # None THEN parse_date_try(args.end) ELSE None)
    /\ all_reviews = <<>>
    /\ si = 1
    /\ pc = "sources"
    /\ ppc = "call"
    /\ product_url = <<>>
    /\ page = 1
    /\ reviews = <<>>
    /\ requests = <<>>
    /\ fetched = [s \in Sources |-> <<>>]
    /\ searched = [s \in Sources |-> "none"]
    /\ status = [s \in Sources |-> "pending"]
    /\ cause = [s \in Sources |-> "none"]
    /\ result = [s \in Sources |-> <<>>]
    /\ stderr = <<>>
    /\ output = NotWritten
    /\ writes = 0

\* The pipeline of source s returns res: main prints the count and extends all_reviews.
Return(s, res) ==
    /\ status' = [status EXCEPT ![s] = "returned"]
    /\ result' = [result EXCEPT ![s] = res]
    /\ stderr' = Append(stderr, [kind |-> "Found", source |-> s, n |-> Len(res)])
    /\ all_reviews' = extend(all_reviews, res)
    /\ si' = si + 1
    /\ ppc' = "call"
    /\ product_url' = <<>>
    /\ page' = 1
    /\ reviews' = <<>>
    /\ UNCHANGED <<cause>>

\* The pipeline of source s raises: main's except clause prints one error message.
Raise(s, exc, partial) ==
    /\ status' = [status EXCEPT ![s] = "raised"]
    /\ cause' = [cause EXCEPT ![s] = exc]
    /\ stderr' = Append(stderr, [kind |-> "Error", source |-> s, n |-> 0])
    /\ all_reviews' = after_except(all_reviews, partial)
    /\ si' = si + 1
    /\ ppc' = "call"
    /\ product_url' = <<>>
    /\ page' = 1
    /\ reviews' = <<>>
    /\ UNCHANGED <<result>>

\* Entering the while loop with the resolved product_url.
EnterLoop(s, url) ==
    /\ status' = [status EXCEPT ![s] = "running"]
    /\ product_url' = url
    /\ page' = 1
    /\ reviews' = <<>>
    /\ ppc' = "loop"
    /\ UNCHANGED <<cause, result, stderr, all_reviews, si>>

SearchRequest(s) ==
    [kind |-> "search", source |-> s, url |-> search_url(s, args.company),
     listing |-> <<>>, page |-> 0]

PageRequest(s) ==
    [kind |-> "page", source |-> s, url |-> page_url(s, product_url, page),
     listing |-> product_url, page |-> page]

\* if company.startswith("http"): product_url = company.rstrip("/")
ResolveDirect ==
    /\ InLoop /\ ppc = "call"
    /\ looks_like_url(args.company)
    /\ EnterLoop(cur, rstrip(args.company, "/"))
    /\ UNCHANGED <<args, start, end, pc, requests, fetched, searched, output, writes>>

\* else: the search request finds a product link
SearchFound ==
    /\ InLoop /\ ppc = "call"
    /\ ~looks_like_url(args.company)
    /\ requests' = Append(requests, SearchRequest(cur))
    /\ searched' = [searched EXCEPT ![cur] = "found"]
    /\ EnterLoop(cur, found_url(cur, SearchHref))
    /\ UNCHANGED <<args, start, end, pc, fetched, output, writes>>

\* else: the search result holds no matching link, the slug fallback is used
SearchNotFound ==
    /\ InLoop /\ ppc = "call"
    /\ ~looks_like_url(args.company)
    /\ requests' = Append(requests, SearchRequest(cur))
    /\ searched' = [searched EXCEPT ![cur] = "notfound"]
    /\ EnterLoop(cur, fallback_url(cur, args.company))
    /\ UNCHANGED <<args, start, end, pc, fetched, output, writes>>

\* else: session.get(search_url) raises (connection failure, timeout)
SearchError ==
    /\ InLoop /\ ppc = "call"
    /\ ~looks_like_url(args.company)
    /\ requests' = Append(requests, SearchRequest(cur))
    /\ searched' = [searched EXCEPT ![cur] = "error"]
    /\ Raise(cur, "transport", <<>>)
    /\ UNCHANGED <<args, start, end, pc, fetched, output, writes>>

\* r = session.get(page_url) raises
FetchError ==
    /\ InLoop /\ ppc = "loop"
    /\ requests' = Append(requests, PageRequest(cur))
    /\ Raise(cur, "transport", reviews)
    /\ UNCHANGED <<args, start, end, pc, fetched, searched, output, writes>>

\* if r.status_code != 200: break
FetchNon200 ==
    /\ InLoop /\ ppc = "loop"
    /\ requests' = Append(requests, PageRequest(cur))
    /\ fetched' = [fetched EXCEPT ![cur] = Append(@, [ok |-> FALSE, items |-> <<>>])]
    /\ Return(cur, reviews)
    /\ UNCHANGED <<args, start, end, pc, searched, output, writes>>

RECURSIVE SumLen(_)
SumLen(pages) ==
    IF pages = <<>> THEN 0 ELSE Len(pages[1].items) + SumLen(Tail(pages))

CardsServed == SumLen(fetched["g2"]) + SumLen(fetched["capterra"])
               + SumLen(fetched["trustradius"])

\* The review cards of page p: n cards, each with some date text.
PageItems(p, n) ==
    { [i \in 1..n |-> [title |-> <<p, i>>, date_text |-> f[i]]] : f \in [1..n -> DateTexts] }

\* A 200 response: no card matches (break), or the cards are processed and
\* the loop breaks on added == 0, goes on to the next page, or raises.
FetchPage ==
    /\ InLoop /\ ppc = "loop"
    /\ \E n \in 0..(MaxTotalCards - CardsServed) : \E items \in PageItems(page, n) :
         LET r == process_items(cur, items, 1, reviews, 0, start, end)
         IN /\ requests' = Append(requests, PageRequest(cur))
            /\ fetched' = [fetched EXCEPT ![cur] = Append(@, [ok |-> TRUE, items |-> items])]
            /\ IF items = <<>> THEN Return(cur, reviews)
               ELSE IF r.raised THEN Raise(cur, "TypeError", r.reviews)
               ELSE IF r.added = 0 THEN Return(cur, r.reviews)
               ELSE /\ reviews' = r.reviews
                    /\ page' = page + 1
                    /\ UNCHANGED <<status, cause, result, stderr, all_reviews, si, ppc,
                                   product_url>>
    /\ UNCHANGED <<args, start, end, pc, searched, output, writes>>

\* with open(args.output, "w") as fh: json.dump(all_reviews, fh, ...)
WriteOutput ==
    /\ pc = "sources"
    /\ sources_exhausted(si, Len(sources))
    /\ output' = [written |-> TRUE, array |-> all_reviews]
    /\ writes' = writes + 1
    /\ stderr' = Append(stderr, [kind |-> "Wrote", source |-> "all", n |-> Len(all_reviews)])
    /\ pc' = "done"
    /\ UNCHANGED <<args, start, end, all_reviews, si, ppc, product_url, page, reviews,
                   requests, fetched, searched, status, cause, result>>

Next ==
    \/ ResolveDirect
    \/ SearchFound
    \/ SearchNotFound
    \/ SearchError
    \/ FetchError
    \/ FetchNon200
    \/ FetchPage
    \/ WriteOutput

Spec == Init /\ [][Next]_vars

\* The run is one sequential process: while a step is possible, one is taken.
FairSpec == Spec /\ WF_vars(Next)

-----------------------------------------------------------------------------
(* Vocabulary of the properties *)

Requested == {sources[i] : i \in 1..Len(sources)}

Terminated(s) == status[s] \in {"returned", "raised"}

\* the cards of the pages received by source s, in page order then card order
RECURSIVE Flatten(_)
Flatten(pages) == IF pages = <<>> THEN <<>> ELSE pages[1].items \o Flatten(Tail(pages))

Cards(s) == Flatten(fetched[s])

\* the date text is missing or parse_date_try cannot parse it
Unparseable(date_text) == date_text = EmptyText \/ parse_date_try(date_text) = None

\* the card's date parses and within_range rejects it
Rejected(it) ==
    /\ ~Unparseable(it.date_text)
    /\ within_range(parse_date_try(it.date_text), start, end) = "False"

\* the card's date parses and within_range accepts it
Accepted(it) ==
    /\ ~Unparseable(it.date_text)
    /\ within_range(parse_date_try(it.date_text), start, end) = "True"

Retained(it) == Unparseable(it.date_text) \/ Accepted(it)

\* the (title, source) pairs of a list of records
Keys(list) == [j \in 1..Len(list) |-> <<list[j].title, list[j].source>>]

\* what a pipeline that processed all the cards it received must have collected
ExpectedKeys(s) ==
    LET kept == SelectSeq(Cards(s), Retained)
    IN [j \in 1..Len(kept) |-> <<kept[j].title, s>>]

HasRecord(list, it) == \E j \in 1..Len(list) : list[j].title = it.title

\* the list source s has collected: its return value, or the reviews of the running pipeline
Collected(s) == IF status[s] = "returned" THEN result[s] ELSE reviews

SourceRank(tag) ==
    CASE tag = "g2" -> 1 [] tag = "capterra" -> 2 [] tag = "trustradius" -> 3 [] OTHER -> 4

TitleBefore(a, b) == a[1] < b[1] \/ (a[1] = b[1] /\ a[2] < b[2])

RequestsOf(s) == SelectSeq(requests, LAMBDA r : r.source = s)

ErrorsOf(s) == SelectSeq(stderr, LAMBDA m : m.kind = "Error" /\ m.source = s)

\* the results of the sources from position i on that returned normally, concatenated
RECURSIVE ReturnedFrom(_)
ReturnedFrom(i) ==
    IF i > Len(sources) THEN <<>>
    ELSE (IF status[sources[i]] = "returned" THEN result[sources[i]] ELSE <<>>)
         \o ReturnedFrom(i + 1)

\* a page response that ends pagination by the stop rule: non-200, or no review card
StopPage(p) == ~p.ok \/ p.items = <<>>

-----------------------------------------------------------------------------
(* C1 *)

\* C1: a pipeline's loop stops only on a non-success response or on a page with
\* zero extracted cards, never because every card of a page was filtered out:
\* whenever a pipeline has returned, the last page it fetched is such a page.
C1_StopsOnlyOnZeroCards ==
    \A s \in Sources :
        (status[s] = "returned" /\ fetched[s] # <<>>)
            => StopPage(fetched[s][Len(fetched[s])])

-----------------------------------------------------------------------------
(* C2 *)

\* C2: fail-open date filtering.  In the list a pipeline has collected (while it
\* runs) or returned, every card received whose date text is missing or
\* unparseable has a record carrying the raw date text, whatever the bounds
\* are, and every card without a record has a parsed date that within_range
\* rejects.
C2_FailOpen ==
    \A s \in Sources :
        status[s] \in {"running", "returned"} =>
            \A k \in 1..Len(Cards(s)) :
                LET it == Cards(s)[k]
                IN /\ Unparseable(it.date_text) =>
                        \E j \in 1..Len(Collected(s)) :
                            /\ Collected(s)[j].title = it.title
                            /\ Collected(s)[j].date = it.date_text
                   /\ ~HasRecord(Collected(s), it) => Rejected(it)

\* Both bounds are set, and a returned pipeline kept an unparseable card next
\* to a card it dropped.
C2_Witness ==
    \E s \in Sources :
        /\ status[s] = "returned"
        /\ start # None /\ end # None
        /\ \E j \in 1..Len(result[s]) : result[s][j].date = GarbageText
        /\ \E k \in 1..Len(Cards(s)) : ~HasRecord(result[s], Cards(s)[k])

-----------------------------------------------------------------------------
(* C3 *)

\* C3: source isolation.  all_reviews is exactly the concatenation, in source
\* order, of the complete results of the sources that returned normally; a
\* source that raised contributes no record and has exactly one error message,
\* a source that did not raise has none; when the run is done every requested
\* source has been run to its end and the file holds that concatenation.
C3_SourceIsolation ==
    /\ all_reviews = ReturnedFrom(1)
    /\ \A s \in Sources :
        /\ status[s] = "returned" => Keys(result[s]) = ExpectedKeys(s)
        /\ status[s] = "raised" =>
              \A j \in 1..Len(all_reviews) : all_reviews[j].source # s
        /\ Len(ErrorsOf(s)) = (IF status[s] = "raised" THEN 1 ELSE 0)
    /\ pc = "done" =>
        /\ \A s \in Requested : Terminated(s)
        /\ output.array = ReturnedFrom(1)

\* The run is done; one source raised after it had collected a record, and
\* another returned a non-empty result.
C3_Witness ==
    /\ pc = "done"
    /\ \E s \in Requested, t \in Requested :
        /\ status[s] = "raised"
        /\ \E k \in 1..Len(Cards(s)) : Retained(Cards(s)[k])
        /\ status[t] = "returned"
        /\ result[t] # <<>>

-----------------------------------------------------------------------------
(* C4 *)

\* C4: pagination stop rule.  The pages of a pipeline are requested in the
\* order 1, 2, 3, ...; a pipeline that has returned did so on the first page
\* with a non-200 status or zero cards, and returned the records of the pages
\* before it; a pipeline whose fetches all completed is not reported as failed.
C4_StopRule ==
    \A s \in Sources :
        LET pageReqs == SelectSeq(RequestsOf(s), LAMBDA r : r.kind = "page")
            n == Len(fetched[s])
        IN /\ \A k \in 1..Len(pageReqs) : pageReqs[k].page = k
           /\ status[s] = "returned" =>
                /\ n >= 1
                /\ StopPage(fetched[s][n])
                /\ \A k \in 1..(n - 1) : ~StopPage(fetched[s][k])
                /\ Keys(result[s]) = ExpectedKeys(s)
           /\ (status[s] = "raised" /\ n >= 1) =>
                Len(pageReqs) > n

-----------------------------------------------------------------------------
(* C5 *)

\* the calendar day lies within the bounds, both inclusive, a null bound
\* imposing no constraint
DayInRange(d) ==
    /\ (start = None \/ start.day <= d.day)
    /\ (end = None \/ d.day <= end.day)

\* C5: inclusive calendar-date range check.  In a returned pipeline, a card
\* whose date parses has a record iff its calendar day lies within the bounds.
C5_InclusiveCalendarRange ==
    \A s \in Sources :
        status[s] = "returned" =>
            \A k \in 1..Len(Cards(s)) :
                LET it == Cards(s)[k]
                IN ~Unparseable(it.date_text) =>
                      (HasRecord(result[s], it) <=> DayInRange(parse_date_try(it.date_text)))

-----------------------------------------------------------------------------
(* C6 *)

\* C6: page URL construction.  Every page request of every source goes to the
\* listing URL followed by ?page=N when the listing URL holds no "?", and by
\* &page=N when it does, and the URL never holds two "?".
C6_PageUrl ==
    \A k \in 1..Len(requests) :
        LET r == requests[k]
        IN r.kind = "page" =>
             /\ r.url = r.listing \o (IF contains(r.listing, <<"?">>)
                                       THEN AmpPage \o str(r.page)
                                       ELSE QPage \o str(r.page))
             /\ count(r.url, "?") <= 1

-----------------------------------------------------------------------------
(* C7 *)

\* C7: provenance and order of the output.  When the run is done, every
\* record of the output carries the tag of a requested source; the records
\* under the tag of a source that returned are exactly the cards it retained,
\* and no other source has any; the records are grouped in the order g2, capterra,
\* trustradius; within a source they are in page order and then card order;
\* the length of the output is the number of cards retained by the sources
\* that returned.
C7_ProvenanceAndOrder ==
    pc = "done" =>
        /\ \A j \in 1..Len(output.array) : output.array[j].source \in Requested
        /\ \A s \in Sources :
              Keys(SelectSeq(output.array, LAMBDA r : r.source = s))
                = (IF status[s] = "returned" THEN ExpectedKeys(s) ELSE <<>>)
        /\ \A j \in 1..Len(output.array) : \A k \in (j + 1)..Len(output.array) :
              /\ SourceRank(output.array[j].source) <= SourceRank(output.array[k].source)
              /\ output.array[j].source = output.array[k].source
                    => TitleBefore(output.array[j].title, output.array[k].title)
        /\ Len(output.array) = Len(ExpectedKeys("g2")) * (IF status["g2"] = "returned" THEN 1 ELSE 0)
              + Len(ExpectedKeys("capterra")) * (IF status["capterra"] = "returned" THEN 1 ELSE 0)
              + Len(ExpectedKeys("trustradius"))
                    * (IF status["trustradius"] = "returned" THEN 1 ELSE 0)

\* The run is done and the output holds records of two different sources.
C7_Witness ==
    /\ pc = "done"
    /\ Len(output.array) >= 2
    /\ output.array[1].source # output.array[Len(output.array)].source

-----------------------------------------------------------------------------
(* C8 *)

AllFailed == \A s \in Requested : status[s] = "raised"

-----------------------------------------------------------------------------
(* C9 *)

HttpScheme == <<"h", "t", "t", "p", ":", "/", "/">>

HttpsScheme == <<"h", "t", "t", "p", "s", ":", "/", "/">>

\* C9: locator dispatch.  For a --company input that starts with http:// or
\* https:// no search request is issued and the first request of a pipeline is
\* page 1 of the input without its trailing slash; for every other input a
\* pipeline that was entered issued exactly one search request, as its first
\* request, and a search without a matching link leads to the slug template.
C9_LocatorDispatch ==
    \A s \in Sources :
        LET rs == RequestsOf(s)
            searches == SelectSeq(rs, LAMBDA r : r.kind = "search")
        IN IF startswith(args.company, HttpScheme) \/ startswith(args.company, HttpsScheme)
           THEN /\ searches = <<>>
                /\ rs # <<>> =>
                     /\ rs[1].kind = "page"
                     /\ rs[1].page = 1
                     /\ rs[1].listing = rstrip(args.company, "/")
           ELSE /\ status[s] # "pending" =>
                     /\ Len(searches) = 1
                     /\ rs[1].kind = "search"
                /\ \A k \in 1..Len(rs) :
                     (rs[k].kind = "page" /\ searched[s] = "notfound")
                         => rs[k].listing = fallback_url(s, args.company)

-----------------------------------------------------------------------------
(* C10 *)

\* C10: only a transport error makes a source fail: every pipeline that raised
\* did so in a request, never while it processed the cards of a fetched page.
C10_OnlyTransportErrors ==
    \A s \in Sources : status[s] = "raised" => cause[s] = "transport"

====
